---- MODULE Spec2Model ----
(***************************************************************************)
(* Model of trow's ClientInterface (src/src/client_interface.rs): the      *)
(* facade that turns registry operations into gRPC calls on the backend    *)
(* and turns backend-supplied locations into local file handles.           *)
(*                                                                         *)
(* Every facade operation is a blocking call made of three steps: the      *)
(* facade builds the request and issues the RPC (...Call), the backend     *)
(* answers (Serve...), and the facade maps the answer to its result        *)
(* (...Finish).  The two streamed operations pull items one at a time      *)
(* (...Pull) between the answer and the result.                            *)
(***************************************************************************)
EXTENDS Integers, Sequences, FiniteSets, TLC

\* ------------------------------------------------------------------ bounds
MaxCalls == 2      \* facade invocations of the single caller
MaxFileCalls == 2  \* sinks the caller obtains and writes through
MaxConcCalls == 3  \* facade invocations of the two concurrent callers, in all
MaxStream == 2     \* items one server stream yields before it ends or fails
MaxFileLen == 2    \* bytes one file holds

\* ------------------------------------------------------------- value sets
Threads == {1, 2}
MainThreads == {1}
Repos == {"r1", "r2"}
References == {"latest", "v1"}
Digests == {"d1", "d2"}
ContentTypes == {"json", "oci"}
Tags == {"t1", "t2"}
Reasons == {"denied", "unsigned"}
Reviews == {"rev1"}
Paths == {"p1", "p2"}
Bytes == {1, 2}
Uuids == {1, 2}

Absent == <<-1>>   \* the content of a location that holds no file

Chunks == UNION {[1 .. n -> Bytes] : n \in 1 .. MaxFileLen}

Range(s) == {s[i] : i \in DOMAIN s}

VARIABLES
    pc,        \* per thread: "idle", "rpc", "resp", "stream", "done"
    op,        \* per thread: the operation in progress and its arguments
    req,       \* per thread: the request message the facade sent
    resp,      \* per thread: the backend's answer to it
    acc,       \* per thread: the collection a streamed operation accumulates
    result,    \* per thread: what the operation returned to its caller
    budget,    \* the facade invocations the callers make in all
    calls,     \* per thread: facade operations invoked so far
    rpcs,      \* per thread: RPC calls issued to the backend so far
    pulled,    \* per thread: what the stream of this invocation yielded so far
    nextUuid,  \* backend: the next upload identifier it issues
    sessions,  \* backend: the upload sessions still open
    issued,    \* history: every session the backend issued, and to whom
    fs,        \* local file store: location -> content, or Absent
    handles,   \* file handles the caller holds
    expect,    \* history: per location, what appended uploads should have left
    writers    \* history: per location, the kinds of sink that wrote to it

vars == <<pc, op, req, resp, acc, result, budget, calls, rpcs, pulled, nextUuid,
          sessions, issued, fs, handles, expect, writers>>

rpcVars == <<nextUuid, sessions, issued>>
fileVars == <<fs, handles, expect, writers>>

NoOp == [name |-> "none"]
NoMsg == [rpc |-> "none"]
NoResp == [ok |-> FALSE, status |-> "none"]
NoAcc == [kind |-> "none"]
NoResult == [ok |-> FALSE, err |-> <<"none">>]
NoExpect == <<-1>>

Start(store) ==
    /\ pc = [t \in Threads |-> "idle"]
    /\ op = [t \in Threads |-> NoOp]
    /\ req = [t \in Threads |-> NoMsg]
    /\ resp = [t \in Threads |-> NoResp]
    /\ acc = [t \in Threads |-> NoAcc]
    /\ result = [t \in Threads |-> NoResult]
    /\ calls = [t \in Threads |-> 0]
    /\ rpcs = [t \in Threads |-> 0]
    /\ pulled = [t \in Threads |-> <<>>]
    /\ nextUuid = 1
    /\ sessions = {}
    /\ issued = {}
    /\ fs = store
    /\ handles = {}
    /\ expect = [p \in DOMAIN store |-> NoExpect]
    /\ writers = [p \in DOMAIN store |-> {}]

\* A single caller using every operation, on a store in which each location
\* holds a file or none.
Init ==
    /\ \E store \in [Paths -> {Absent, <<1>>}] : Start(store)
    /\ budget = MaxCalls

\* A single caller writing through sinks that the backend resolves to the
\* same location every time.
InitFiles == Start([p \in {"p1"} |-> Absent]) /\ budget = MaxFileCalls

\* Two callers starting and completing uploads concurrently.
InitConc == Start([p \in Paths |-> Absent]) /\ budget = MaxConcCalls

\* ------------------------------------------------------- the call protocol

\* The caller may start an operation when its previous one has returned.
TotalCalls == calls[1] + calls[2]

CanCall(t) == pc[t] \in {"idle", "done"} /\ TotalCalls < budget

\* `self.rc.<rpc>(&req)`: the facade sends message m and blocks on the answer.
Issue(t, o, m) ==
    /\ CanCall(t)
    /\ pc' = [pc EXCEPT ![t] = "rpc"]
    /\ op' = [op EXCEPT ![t] = o]
    /\ req' = [req EXCEPT ![t] = m]
    /\ resp' = [resp EXCEPT ![t] = NoResp]
    /\ acc' = [acc EXCEPT ![t] = NoAcc]
    /\ result' = [result EXCEPT ![t] = NoResult]
    /\ calls' = [calls EXCEPT ![t] = @ + 1]
    /\ rpcs' = [rpcs EXCEPT ![t] = @ + 1]
    /\ pulled' = [pulled EXCEPT ![t] = <<>>]
    /\ UNCHANGED budget

\* The backend answers the request of thread t with r.
Answer(t, r) ==
    /\ pc' = [pc EXCEPT ![t] = "resp"]
    /\ resp' = [resp EXCEPT ![t] = r]
    /\ UNCHANGED <<op, req, acc, result, budget, calls, rpcs, pulled>>

\* The operation of thread t returns r to its caller.
Return(t, r) ==
    /\ pc' = [pc EXCEPT ![t] = "done"]
    /\ result' = [result EXCEPT ![t] = r]
    /\ UNCHANGED <<op, req, resp, budget, calls, rpcs>>

Ok(v) == [ok |-> TRUE, val |-> v]
Err(e) == [ok |-> FALSE, err |-> e]

\* `?` on an RPC result: the gRPC error converted into failure::Error.
RpcErr(r) == Err(<<"rpc", r.status>>)

RpcFailure == [ok |-> FALSE, status |-> "unavailable"]

Awaiting(t, rpc) == pc[t] = "rpc" /\ req[t].rpc = rpc
Answered(t, name) == pc[t] = "resp" /\ op[t].name = name

\* ---------------------------------------------------- domain value types
\* The constructors of the `types` module, which is not part of the facade's
\* file: plain records of the fields they are given.
create_upload_info(uuid, repo_name, range) ==
    [uuid |-> uuid, repo_name |-> repo_name, range |-> range]

create_accepted_upload(digest, repo_name) ==
    [digest |-> digest, repo_name |-> repo_name]

create_verified_manifest(repo_name, digest, reference, content_type) ==
    [repo_name |-> repo_name, digest |-> digest, reference |-> reference,
     content_type |-> content_type]

\* ------------------------------------------------------------ request_upload
RequestUploadCall(t) ==
    \E repo \in Repos :
        /\ Issue(t, [name |-> "request_upload", repo_name |-> repo],
                    [rpc |-> "RequestUpload", repo_name |-> repo])
        /\ UNCHANGED <<rpcVars, fileVars>>

\* The backend opens a session for the repository named in the request and
\* answers with its identifier, or rejects the call.
ServeRequestUpload(t) ==
    /\ Awaiting(t, "RequestUpload")
    /\ \/ /\ Answer(t, [ok |-> TRUE, uuid |-> nextUuid])
          /\ nextUuid' = nextUuid + 1
          /\ sessions' = sessions \cup
                {[uuid |-> nextUuid, repo_name |-> req[t].repo_name]}
          /\ issued' = issued \cup
                {[uuid |-> nextUuid, repo_name |-> req[t].repo_name, to |-> t]}
       \/ /\ Answer(t, RpcFailure)
          /\ UNCHANGED rpcVars
    /\ UNCHANGED fileVars

\* An identifier the facade keeps from the latest answer any caller received.
RequestUploadFinishShared(t) ==
    /\ Answered(t, "request_upload")
    /\ IF resp[t].ok
       THEN Return(t, Ok(create_upload_info(nextUuid - 1,
                                            op[t].repo_name, <<0, 0>>)))
       ELSE Return(t, RpcErr(resp[t]))
    /\ UNCHANGED <<acc, pulled, rpcVars, fileVars>>

RequestUploadFinish(t) ==
    /\ Answered(t, "request_upload")
    /\ IF resp[t].ok
       THEN Return(t, Ok(create_upload_info(resp[t].uuid,
                                            op[t].repo_name, <<0, 0>>)))
       ELSE Return(t, RpcErr(resp[t]))
    /\ UNCHANGED <<acc, pulled, rpcVars, fileVars>>

\* ----------------------------------------------------------- complete_upload
CompleteUploadCall(t) ==
    \E repo \in Repos, uuid \in Uuids, digest \in Digests :
        /\ Issue(t, [name |-> "complete_upload", repo_name |-> repo,
                     uuid |-> uuid, digest |-> digest],
                    [rpc |-> "CompleteUpload", repo_name |-> repo,
                     uuid |-> uuid, user_digest |-> digest])
        /\ UNCHANGED <<rpcVars, fileVars>>

\* The backend closes the session the request names and answers with the
\* digest it settled on; it rejects a request that names no open session, and
\* may reject any other (a digest it does not confirm, a transport failure).
ServeCompleteUpload(t) ==
    /\ Awaiting(t, "CompleteUpload")
    /\ LET s == [uuid |-> req[t].uuid, repo_name |-> req[t].repo_name] IN
       \/ /\ s \in sessions
          /\ \E d \in Digests : Answer(t, [ok |-> TRUE, digest |-> d])
          /\ sessions' = sessions \ {s}
          /\ UNCHANGED <<nextUuid, issued>>
       \/ /\ Answer(t, RpcFailure)
          /\ UNCHANGED rpcVars
    /\ UNCHANGED fileVars

\* The digest the caller asserted, returned in place of the backend's.
CompleteUploadFinishUserDigest(t) ==
    /\ Answered(t, "complete_upload")
    /\ IF resp[t].ok
       THEN Return(t, Ok(create_accepted_upload(op[t].digest, op[t].repo_name)))
       ELSE Return(t, RpcErr(resp[t]))
    /\ UNCHANGED <<acc, pulled, rpcVars, fileVars>>

CompleteUploadFinish(t) ==
    /\ Answered(t, "complete_upload")
    /\ IF resp[t].ok
       THEN Return(t, Ok(create_accepted_upload(resp[t].digest, op[t].repo_name)))
       ELSE Return(t, RpcErr(resp[t]))
    /\ UNCHANGED <<acc, pulled, rpcVars, fileVars>>

\* ------------------------------------------------------- concurrent uploads
NextConc ==
    \E t \in Threads :
        \/ RequestUploadCall(t)
        \/ ServeRequestUpload(t)
        \/ RequestUploadFinish(t)
        \/ CompleteUploadCall(t)
        \/ ServeCompleteUpload(t)
        \/ CompleteUploadFinish(t)

SpecConc == InitConc /\ [][NextConc]_vars

\* ---------------------------------------------------------- local file store
\* std::fs::OpenOptions as the facade sets it for each kind of handle.
\* The upload sink opened like the manifest sink: for writing, not appending.
UploadSinkOptionsNoAppend ==
    [read |-> FALSE, write |-> TRUE, append |-> FALSE, create |-> TRUE,
     truncate |-> FALSE]

UploadSinkOptions ==
    [read |-> FALSE, write |-> FALSE, append |-> TRUE, create |-> TRUE,
     truncate |-> FALSE]

ManifestSinkOptions ==
    [read |-> FALSE, write |-> TRUE, append |-> FALSE, create |-> TRUE,
     truncate |-> FALSE]

\* The read handle opened with the sinks' create-if-absent.
ReaderOptionsCreate ==
    [read |-> TRUE, write |-> TRUE, append |-> FALSE, create |-> TRUE,
     truncate |-> FALSE]

ReaderOptions ==
    [read |-> TRUE, write |-> FALSE, append |-> FALSE, create |-> FALSE,
     truncate |-> FALSE]

\* open(2) under options o on a location holding c: it fails on a missing file
\* unless o creates it, and leaves an existing file as it is unless o truncates.
CanOpen(c, o) == c # Absent \/ (o.create /\ (o.write \/ o.append))

Opened(c, o) ==
    IF c = Absent THEN <<>>
    ELSE IF o.truncate /\ o.write THEN <<>>
    ELSE c

\* write(2) of chunk d through a handle with options o and cursor pos on a file
\* holding c: at the end of the file in append mode, over the bytes at the
\* cursor otherwise.
Written(c, o, pos, d) ==
    IF o.append THEN c \o d
    ELSE SubSeq(c, 1, pos) \o d \o SubSeq(c, pos + Len(d) + 1, Len(c))

FreeId == CHOOSE i \in 1 .. (Cardinality(handles) + 1) :
              \A h \in handles : h.id # i

Held(c) == IF c = Absent THEN <<>> ELSE c

\* `OpenOptions::new()...open(path)?` and the return of the handle: result
\* Ok(mk(id)) with the file opened, or the I/O error with nothing opened.
\* `granted` is the operating system's verdict on the caller's permissions.
OpenOrFail(t, path, o, kind, meta) ==
    \E granted \in BOOLEAN :
        IF granted /\ CanOpen(fs[path], o)
        THEN /\ fs' = [fs EXCEPT ![path] = Opened(@, o)]
             /\ handles' = handles \cup
                    {[id |-> FreeId, path |-> path, options |-> o, pos |-> 0,
                      kind |-> kind, written |-> <<>>, clean |-> TRUE]}
             /\ expect' = IF kind = "upload" /\ expect[path] = NoExpect
                          THEN [expect EXCEPT ![path] = Held(fs[path])]
                          ELSE expect
             /\ UNCHANGED writers
             /\ Return(t, Ok([handle |-> FreeId] @@ meta))
        ELSE /\ UNCHANGED fileVars
             /\ Return(t, Err(<<"io", path>>))

\* The caller writes chunk d through sink h (std::io::Write on the File).
Write(t, h, d) ==
    /\ pc[t] \in {"idle", "done"}
    /\ h \in handles
    /\ h.options.write \/ h.options.append
    /\ LET new == Written(fs[h.path], h.options, h.pos, d) IN
       /\ Len(new) <= MaxFileLen
       /\ fs' = [fs EXCEPT ![h.path] = new]
       /\ handles' =
            {IF g = h
             THEN [g EXCEPT !.pos = IF g.options.append THEN Len(new)
                                    ELSE g.pos + Len(d),
                            !.written = g.written \o d]
             ELSE IF g.path = h.path THEN [g EXCEPT !.clean = FALSE]
             ELSE g : g \in handles}
       /\ expect' = [expect EXCEPT ![h.path] =
                        IF h.kind = "upload" /\ @ # NoExpect THEN @ \o d
                        ELSE NoExpect]
       /\ writers' = [writers EXCEPT ![h.path] = @ \cup {h.kind}]
    /\ UNCHANGED <<pc, op, req, resp, acc, result, budget, calls, rpcs, pulled, rpcVars>>

\* The caller's scope ends and the handle is dropped, which closes the file.
Release(t, h) ==
    /\ pc[t] \in {"idle", "done"}
    /\ h \in handles
    /\ handles' = handles \ {h}
    /\ UNCHANGED <<fs, expect, writers>>
    /\ UNCHANGED <<pc, op, req, resp, acc, result, budget, calls, rpcs, pulled, rpcVars>>

\* ------------------------------------------------- location-resolving RPCs
\* The backend resolves the request to a location of its choosing (with the
\* manifest's metadata for a manifest read), or rejects the call.
ServeLocation(t) ==
    /\ pc[t] = "rpc"
    /\ req[t].rpc \in {"GetWriteLocationForBlob", "GetWriteLocationForManifest",
                       "GetReadLocationForManifest", "GetReadLocationForBlob"}
    /\ \/ \E p \in DOMAIN fs :
            IF req[t].rpc = "GetReadLocationForManifest"
            THEN \E ct \in ContentTypes, d \in Digests :
                    Answer(t, [ok |-> TRUE, path |-> p, content_type |-> ct,
                               digest |-> d])
            ELSE Answer(t, [ok |-> TRUE, path |-> p])
       \/ Answer(t, RpcFailure)
    /\ UNCHANGED <<rpcVars, fileVars>>

\* ------------------------------------------------ get_write_sink_for_upload
GetWriteSinkForUploadCall(t) ==
    \E repo \in Repos, uuid \in Uuids :
        /\ Issue(t, [name |-> "get_write_sink_for_upload", repo_name |-> repo,
                     uuid |-> uuid],
                    [rpc |-> "GetWriteLocationForBlob", uuid |-> uuid,
                     repo_name |-> repo])
        /\ UNCHANGED <<rpcVars, fileVars>>

GetWriteSinkForUploadFinish(t) ==
    /\ Answered(t, "get_write_sink_for_upload")
    /\ IF resp[t].ok
       THEN OpenOrFail(t, resp[t].path, UploadSinkOptions, "upload",
                       [sink |-> "upload"])
       ELSE Return(t, RpcErr(resp[t])) /\ UNCHANGED fileVars
    /\ UNCHANGED <<acc, pulled, rpcVars>>

\* ---------------------------------------------- get_write_sink_for_manifest
GetWriteSinkForManifestCall(t) ==
    \E repo \in Repos, reference \in References :
        /\ Issue(t, [name |-> "get_write_sink_for_manifest",
                     repo_name |-> repo, reference |-> reference],
                    [rpc |-> "GetWriteLocationForManifest",
                     reference |-> reference, repo_name |-> repo])
        /\ UNCHANGED <<rpcVars, fileVars>>

GetWriteSinkForManifestFinish(t) ==
    /\ Answered(t, "get_write_sink_for_manifest")
    /\ IF resp[t].ok
       THEN OpenOrFail(t, resp[t].path, ManifestSinkOptions, "manifest",
                       [sink |-> "manifest"])
       ELSE Return(t, RpcErr(resp[t])) /\ UNCHANGED fileVars
    /\ UNCHANGED <<acc, pulled, rpcVars>>

\* -------------------------------------------------- get_reader_for_manifest
GetReaderForManifestCall(t) ==
    \E repo \in Repos, reference \in References :
        /\ Issue(t, [name |-> "get_reader_for_manifest", repo_name |-> repo,
                     reference |-> reference],
                    [rpc |-> "GetReadLocationForManifest",
                     reference |-> reference, repo_name |-> repo])
        /\ UNCHANGED <<rpcVars, fileVars>>

\* create_manifest_reader: the open file with the backend's metadata.
GetReaderForManifestFinish(t) ==
    /\ Answered(t, "get_reader_for_manifest")
    /\ IF resp[t].ok
       THEN OpenOrFail(t, resp[t].path, ReaderOptions, "manifest_reader",
                       [content_type |-> resp[t].content_type,
                        digest |-> resp[t].digest])
       ELSE Return(t, RpcErr(resp[t])) /\ UNCHANGED fileVars
    /\ UNCHANGED <<acc, pulled, rpcVars>>

\* ------------------------------------------------------ get_reader_for_blob
GetReaderForBlobCall(t) ==
    \E repo \in Repos, digest \in Digests :
        /\ Issue(t, [name |-> "get_reader_for_blob", repo_name |-> repo,
                     digest |-> digest],
                    [rpc |-> "GetReadLocationForBlob", digest |-> digest,
                     repo_name |-> repo])
        /\ UNCHANGED <<rpcVars, fileVars>>

\* create_blob_reader: the open file with the digest the caller asked for.
GetReaderForBlobFinish(t) ==
    /\ Answered(t, "get_reader_for_blob")
    /\ IF resp[t].ok
       THEN OpenOrFail(t, resp[t].path, ReaderOptions, "blob_reader",
                       [digest |-> op[t].digest])
       ELSE Return(t, RpcErr(resp[t])) /\ UNCHANGED fileVars
    /\ UNCHANGED <<acc, pulled, rpcVars>>

\* ---------------------------------------------------------- verify_manifest
VerifyManifestCall(t) ==
    \E repo \in Repos, reference \in References :
        /\ Issue(t, [name |-> "verify_manifest", repo_name |-> repo,
                     reference |-> reference],
                    [rpc |-> "VerifyManifest", reference |-> reference,
                     repo_name |-> repo])
        /\ UNCHANGED <<rpcVars, fileVars>>

\* The backend verifies the manifest and answers with the digest and content
\* type it found, or rejects the call.
ServeVerifyManifest(t) ==
    /\ Awaiting(t, "VerifyManifest")
    /\ \/ \E d \in Digests, ct \in ContentTypes :
            Answer(t, [ok |-> TRUE, digest |-> d, content_type |-> ct])
       \/ Answer(t, RpcFailure)
    /\ UNCHANGED <<rpcVars, fileVars>>

\* The reference passed where the content type belongs.
VerifyManifestFinishSwapped(t) ==
    /\ Answered(t, "verify_manifest")
    /\ IF resp[t].ok
       THEN Return(t, Ok(create_verified_manifest(
                op[t].repo_name, resp[t].digest, resp[t].content_type,
                op[t].reference)))
       ELSE Return(t, RpcErr(resp[t]))
    /\ UNCHANGED <<acc, pulled, rpcVars, fileVars>>

VerifyManifestFinish(t) ==
    /\ Answered(t, "verify_manifest")
    /\ IF resp[t].ok
       THEN Return(t, Ok(create_verified_manifest(
                op[t].repo_name, resp[t].digest, op[t].reference,
                resp[t].content_type)))
       ELSE Return(t, RpcErr(resp[t]))
    /\ UNCHANGED <<acc, pulled, rpcVars, fileVars>>

\* ------------------------------------------------------- validate_admission
ValidateAdmissionCall(t) ==
    \E a_rev \in Reviews :
        /\ Issue(t, [name |-> "validate_admission", review |-> a_rev],
                    [rpc |-> "ValidateAdmission", review |-> a_rev])
        /\ UNCHANGED <<rpcVars, fileVars>>

\* The admission controller answers with its verdict and the reason for it,
\* or the call fails.
ServeValidateAdmission(t) ==
    /\ Awaiting(t, "ValidateAdmission")
    /\ \/ \E v \in BOOLEAN, r \in Reasons :
            Answer(t, [ok |-> TRUE, valid |-> v, reason |-> r])
       \/ Answer(t, RpcFailure)
    /\ UNCHANGED <<rpcVars, fileVars>>

\* The verdict tested the wrong way round.
ValidateAdmissionFinishInverted(t) ==
    /\ Answered(t, "validate_admission")
    /\ IF ~resp[t].ok THEN Return(t, RpcErr(resp[t]))
       ELSE IF resp[t].valid
       THEN Return(t, Err(<<"Failed validation: ", resp[t].reason>>))
       ELSE Return(t, Ok([unit |-> TRUE]))
    /\ UNCHANGED <<acc, pulled, rpcVars, fileVars>>

\* format_err!("Failed validation: {}", resp.reason)
ValidateAdmissionFinish(t) ==
    /\ Answered(t, "validate_admission")
    /\ IF ~resp[t].ok THEN Return(t, RpcErr(resp[t]))
       ELSE IF ~resp[t].valid
       THEN Return(t, Err(<<"Failed validation: ", resp[t].reason>>))
       ELSE Return(t, Ok([unit |-> TRUE]))
    /\ UNCHANGED <<acc, pulled, rpcVars, fileVars>>

\* ------------------------------------------------------- streamed operations
\* RepoCatalog and TagList of the `types` module: a set of repository names,
\* and the tags of one repository in the order they were inserted.
NewRepoCatalog == [catalog |-> {}]
CatalogInsert(c, rn) == [c EXCEPT !.catalog = @ \cup {rn}]
NewTagList(repo_name) == [repo_name |-> repo_name, list |-> <<>>]
TagListInsert(l, tag) == [l EXCEPT !.list = Append(@, tag)]

Item(x) == [item |-> x]
EndOfStream == [item |-> "end-of-stream"]
StreamError == [item |-> "stream-error"]
Items(p) == SelectSeq(p, LAMBDA o : o \notin {EndOfStream, StreamError})

\* The backend opens the stream the request asks for, or rejects the call.
ServeOpenStream(t) ==
    /\ pc[t] = "rpc"
    /\ req[t].rpc \in {"GetCatalog", "ListTags"}
    /\ \/ Answer(t, [ok |-> TRUE, stream |-> req[t].rpc])
       \/ Answer(t, RpcFailure)
    /\ UNCHANGED <<rpcVars, fileVars>>

\* `?` on the stream-opening call, then the empty collection: the loop is entered.
StartStream(t, empty) ==
    /\ IF resp[t].ok
       THEN /\ pc' = [pc EXCEPT ![t] = "stream"]
            /\ acc' = [acc EXCEPT ![t] = empty]
            /\ UNCHANGED result
       ELSE /\ pc' = [pc EXCEPT ![t] = "done"]
            /\ result' = [result EXCEPT ![t] = RpcErr(resp[t])]
            /\ UNCHANGED acc
    /\ UNCHANGED <<op, req, resp, budget, calls, rpcs, pulled, rpcVars, fileVars>>

\* One turn of the loop, `stream.into_future().wait()`, has three outcomes.
\* Ok((Some(x), s)): the item is inserted and the loop goes on.
PullItem(t, x, inserted) ==
    /\ Len(Items(pulled[t])) < MaxStream
    /\ acc' = [acc EXCEPT ![t] = inserted]
    /\ pulled' = [pulled EXCEPT ![t] = Append(@, Item(x))]
    /\ UNCHANGED <<pc, result>>

\* Ok((None, _)): the loop ends and the collection is returned.
PullEnd(t) ==
    /\ pulled' = [pulled EXCEPT ![t] = Append(@, EndOfStream)]
    /\ pc' = [pc EXCEPT ![t] = "done"]
    /\ result' = [result EXCEPT ![t] = Ok(acc[t])]
    /\ UNCHANGED acc

\* Err((e, _)): format_err!("Failure streaming from server {:?}", e) is returned.
PullError(t) ==
    /\ pulled' = [pulled EXCEPT ![t] = Append(@, StreamError)]
    /\ pc' = [pc EXCEPT ![t] = "done"]
    /\ result' = [result EXCEPT ![t] =
                      Err(<<"Failure streaming from server ", "e">>)]
    /\ UNCHANGED acc

\* -------------------------------------------------------------- get_catalog
GetCatalogCall(t) ==
    /\ Issue(t, [name |-> "get_catalog"], [rpc |-> "GetCatalog"])
    /\ UNCHANGED <<rpcVars, fileVars>>

\* A failed stream-opening call that is issued again.
GetCatalogStartRetry(t) ==
    /\ Answered(t, "get_catalog")
    /\ IF resp[t].ok
       THEN StartStream(t, NewRepoCatalog)
       ELSE /\ pc' = [pc EXCEPT ![t] = "rpc"]
            /\ rpcs' = [rpcs EXCEPT ![t] = @ + 1]
            /\ UNCHANGED <<op, req, resp, acc, result, budget, calls, pulled,
                           rpcVars, fileVars>>

GetCatalogStart(t) ==
    /\ Answered(t, "get_catalog")
    /\ StartStream(t, NewRepoCatalog)

\* An item that is pulled and not inserted.
GetCatalogPullNoInsert(t) ==
    /\ pc[t] = "stream"
    /\ op[t].name = "get_catalog"
    /\ \/ \E ce \in Repos : PullItem(t, ce, acc[t])
       \/ PullEnd(t)
       \/ PullError(t)
    /\ UNCHANGED <<op, req, resp, budget, calls, rpcs, rpcVars, fileVars>>

GetCatalogPull(t) ==
    /\ pc[t] = "stream"
    /\ op[t].name = "get_catalog"
    /\ \/ \E ce \in Repos : PullItem(t, ce, CatalogInsert(acc[t], ce))
       \/ PullEnd(t)
       \/ PullError(t)
    /\ UNCHANGED <<op, req, resp, budget, calls, rpcs, rpcVars, fileVars>>

\* ---------------------------------------------------------------- list_tags
ListTagsCall(t) ==
    \E repo \in Repos :
        /\ Issue(t, [name |-> "list_tags", repo_name |-> repo],
                    [rpc |-> "ListTags", repo_name |-> repo])
        /\ UNCHANGED <<rpcVars, fileVars>>

ListTagsStart(t) ==
    /\ Answered(t, "list_tags")
    /\ StartStream(t, NewTagList(op[t].repo_name))

\* A stream error that ends the loop like the end of the stream does.
ListTagsPullBreakOnError(t) ==
    /\ pc[t] = "stream"
    /\ op[t].name = "list_tags"
    /\ \/ \E tag \in Tags : PullItem(t, tag, TagListInsert(acc[t], tag))
       \/ PullEnd(t)
       \/ /\ pulled' = [pulled EXCEPT ![t] = Append(@, StreamError)]
          /\ pc' = [pc EXCEPT ![t] = "done"]
          /\ result' = [result EXCEPT ![t] = Ok(acc[t])]
          /\ UNCHANGED acc
    /\ UNCHANGED <<op, req, resp, budget, calls, rpcs, rpcVars, fileVars>>

ListTagsPull(t) ==
    /\ pc[t] = "stream"
    /\ op[t].name = "list_tags"
    /\ \/ \E tag \in Tags : PullItem(t, tag, TagListInsert(acc[t], tag))
       \/ PullEnd(t)
       \/ PullError(t)
    /\ UNCHANGED <<op, req, resp, budget, calls, rpcs, rpcVars, fileVars>>

\* ------------------------------------------------------------ specification
Next ==
    \E t \in MainThreads :
        \/ RequestUploadCall(t)
        \/ ServeRequestUpload(t)
        \/ RequestUploadFinish(t)
        \/ CompleteUploadCall(t)
        \/ ServeCompleteUpload(t)
        \/ CompleteUploadFinish(t)
        \/ ServeLocation(t)
        \/ GetWriteSinkForUploadCall(t)
        \/ GetWriteSinkForUploadFinish(t)
        \/ GetWriteSinkForManifestCall(t)
        \/ GetWriteSinkForManifestFinish(t)
        \/ GetReaderForManifestCall(t)
        \/ GetReaderForManifestFinish(t)
        \/ GetReaderForBlobCall(t)
        \/ GetReaderForBlobFinish(t)
        \/ VerifyManifestCall(t)
        \/ ServeVerifyManifest(t)
        \/ VerifyManifestFinish(t)
        \/ ValidateAdmissionCall(t)
        \/ ServeValidateAdmission(t)
        \/ ValidateAdmissionFinish(t)
        \/ ServeOpenStream(t)
        \/ GetCatalogCall(t)
        \/ GetCatalogStart(t)
        \/ GetCatalogPull(t)
        \/ ListTagsCall(t)
        \/ ListTagsStart(t)
        \/ ListTagsPull(t)
        \/ \E h \in handles : Release(t, h)

Spec == Init /\ [][Next]_vars

\* The caller obtains sinks, writes through them and releases them.
NextFiles ==
    \E t \in MainThreads :
        \/ GetWriteSinkForUploadCall(t)
        \/ GetWriteSinkForManifestCall(t)
        \/ ServeLocation(t)
        \/ GetWriteSinkForUploadFinish(t)
        \/ GetWriteSinkForManifestFinish(t)
        \/ \E h \in handles, d \in Chunks : Write(t, h, d)
        \/ \E h \in handles : Release(t, h)

SpecFiles == InitFiles /\ [][NextFiles]_vars

\* ================================================================== claims

Alone(h) == \A g \in handles : g.path = h.path => g = h

\* C1: once content A was written to a location through a manifest sink and
\* the sink released, content B written through a second manifest sink for the
\* same location is all the location holds: no byte of A remains, also when B
\* is shorter than A.  (Stated of a second sink that has written at least one
\* byte, is the only handle open on the location, and of a location only
\* manifest sinks ever wrote to.)
C1_ManifestSinkReplaces ==
    \A h \in handles :
        ( /\ h.kind = "manifest"
          /\ h.written # <<>>
          /\ h.clean
          /\ Alone(h)
          /\ writers[h.path] \subseteq {"manifest"} )
        => fs[h.path] = h.written

\* The case of C1: a second manifest sink has written less than the location
\* held when it was opened.
C1_Witness ==
    \E h \in handles :
        /\ h.kind = "manifest"
        /\ h.written # <<>>
        /\ h.clean
        /\ Alone(h)
        /\ writers[h.path] = {"manifest"}
        /\ Len(h.written) < Len(fs[h.path])

\* C2: the chunks written through upload sinks for one location, each through
\* a sink of its own, leave the location holding what it held before the first
\* sink was opened (nothing if it held no file) followed by the chunks in the
\* order they were written; no earlier byte is overwritten or dropped.
C2_UploadSinkAppends ==
    \A p \in DOMAIN fs : expect[p] # NoExpect => fs[p] = expect[p]

\* The case of C2: an upload sink has written a chunk after bytes that another
\* upload sink wrote to the same location.
C2_Witness ==
    \E h \in handles :
        /\ h.kind = "upload"
        /\ h.written # <<>>
        /\ writers[h.path] = {"upload"}
        /\ expect[h.path] # NoExpect
        /\ Len(fs[h.path]) > Len(h.written)
        /\ Alone(h)

StreamOps == {"get_catalog", "list_tags"}
ReaderOps == {"get_reader_for_manifest", "get_reader_for_blob"}
SinkOps == {"get_write_sink_for_upload", "get_write_sink_for_manifest"}

Last(q) == q[Len(q)]
Failed(r) == ~r.ok /\ "val" \notin DOMAIN r
ItemSet(q) == {o.item : o \in Range(Items(q))}

\* C3: when the stream of get_catalog or list_tags yields some items and then
\* an error, nothing more is pulled from it, and the operation returns a
\* failure that carries no collection: not the items pulled so far, not an
\* empty one.
C3_StreamAllOrNothing ==
    \A t \in Threads :
        (op[t].name \in StreamOps /\ StreamError \in Range(pulled[t]))
        => /\ Last(pulled[t]) = StreamError
           /\ \A i \in 1 .. (Len(pulled[t]) - 1) : pulled[t][i] # StreamError
           /\ pc[t] = "done"
           /\ Failed(result[t])

\* The case of C3: list_tags has pulled two items and then the stream's error.
C3_Witness ==
    \E t \in Threads :
        /\ op[t].name = "list_tags"
        /\ pc[t] = "done"
        /\ Len(pulled[t]) = 3
        /\ Last(pulled[t]) = StreamError

\* C4: when the stream of get_catalog or list_tags yields items and then ends
\* without an error, the operation returns success with a collection holding
\* every item yielded and nothing else: for get_catalog the set of the names
\* yielded, a name yielded twice held once; for list_tags the tags yielded,
\* bound to the repository the caller passed.
C4_StreamComplete ==
    \A t \in Threads :
        ( /\ op[t].name \in StreamOps
          /\ pulled[t] # <<>>
          /\ Last(pulled[t]) = EndOfStream )
        => /\ pc[t] = "done"
           /\ result[t].ok
           /\ IF op[t].name = "get_catalog"
              THEN result[t].val.catalog = ItemSet(pulled[t])
              ELSE /\ Range(result[t].val.list) = ItemSet(pulled[t])
                   /\ result[t].val.repo_name = op[t].repo_name

\* The case of C4: get_catalog has pulled the same name twice, then the end of
\* the stream.
C4_Witness ==
    \E t \in Threads :
        /\ op[t].name = "get_catalog"
        /\ pc[t] = "done"
        /\ pulled[t] = <<Item("r2"), Item("r2"), EndOfStream>>

\* C5: validate_admission returns success exactly when the admission RPC
\* completed and the answer's valid flag is true; when the RPC completed with
\* valid false, it fails with a message carrying the backend's reason
\* unchanged; when the RPC failed, it fails.
C5_AdmissionVerdict ==
    \A t \in Threads :
        (op[t].name = "validate_admission" /\ pc[t] = "done")
        => /\ result[t].ok <=> (resp[t].ok /\ resp[t].valid)
           /\ (resp[t].ok /\ ~resp[t].valid)
                => /\ Failed(result[t])
                   /\ Last(result[t].err) = resp[t].reason
           /\ ~resp[t].ok => Failed(result[t])

\* The case of C5: the backend answered valid = false with a reason.
C5_Witness ==
    \E t \in Threads :
        /\ op[t].name = "validate_admission"
        /\ pc[t] = "done"
        /\ resp[t].ok
        /\ ~resp[t].valid
        /\ resp[t].reason = "unsigned"

\* C6: under every interleaving of two concurrent request_upload calls, each
\* caller's UploadInfo carries the identifier the backend issued in answer to
\* that caller's own request, paired with that caller's own repository.
C6_NoCrossAssignment ==
    \A t \in Threads :
        (op[t].name = "request_upload" /\ pc[t] = "done" /\ result[t].ok)
        => /\ [uuid |-> result[t].val.uuid, repo_name |-> op[t].repo_name,
               to |-> t] \in issued
           /\ result[t].val.repo_name = op[t].repo_name
           /\ \A u \in Threads \ {t} :
                (op[u].name = "request_upload" /\ pc[u] = "done" /\ result[u].ok)
                => result[u].val.uuid # result[t].val.uuid

\* The case of C6: both callers' request_upload calls were in flight together,
\* for different repositories, answered in one order and returned in the other.
C6_Witness ==
    /\ \A t \in Threads :
        op[t].name = "request_upload" /\ pc[t] = "done" /\ result[t].ok
    /\ op[1].repo_name = "r1"
    /\ op[2].repo_name = "r2"
    /\ result[1].val.uuid = 2
    /\ result[2].val.uuid = 1
    /\ TotalCalls = 2

\* C7: verify_manifest returns a VerifiedManifest with exactly the digest and
\* content type of the backend's answer and exactly the caller's repository
\* and reference; when the RPC fails it returns no VerifiedManifest.
C7_VerifiedManifestRoundTrip ==
    \A t \in Threads :
        (op[t].name = "verify_manifest" /\ pc[t] = "done")
        => IF resp[t].ok
           THEN /\ result[t].ok
                /\ result[t].val.digest = resp[t].digest
                /\ result[t].val.content_type = resp[t].content_type
                /\ result[t].val.repo_name = op[t].repo_name
                /\ result[t].val.reference = op[t].reference
           ELSE Failed(result[t])

\* The case of C7: a manifest verified with a digest and a content type.
C7_Witness ==
    \E t \in Threads :
        /\ op[t].name = "verify_manifest"
        /\ pc[t] = "done"
        /\ resp[t].ok
        /\ resp[t].digest = "d2"
        /\ resp[t].content_type = "oci"
        /\ op[t].reference = "v1"
        /\ op[t].repo_name = "r2"

InCall(t) == pc[t] \notin {"idle", "done"}

\* C8: an operation that returns a failure leaves the file store as it was
\* and hands out no handle: every step of an operation that changes a file or
\* the handles held is the successful return of a sink or a reader; a reader
\* changes no file at all, and does not succeed on a location holding no file
\* (so it creates none); request_upload, complete_upload, verify_manifest,
\* get_catalog, list_tags and validate_admission open and modify nothing.
C8_FailureLeavesStoreAlone ==
    [][\A t \in MainThreads :
        (InCall(t) \/ InCall(t)')
        => /\ (fs' # fs \/ handles' # handles)
                => /\ pc'[t] = "done"
                   /\ result'[t].ok
                   /\ op'[t].name \in SinkOps \cup ReaderOps
                   /\ Cardinality(handles') = Cardinality(handles) + 1
           /\ (pc'[t] = "done" /\ ~result'[t].ok)
                => /\ fs' = fs
                   /\ handles' = handles
                   /\ Failed(result'[t])
           /\ op'[t].name \in ReaderOps
                => /\ fs' = fs
                   /\ (pc'[t] = "done" /\ resp[t].ok /\ fs[resp[t].path] = Absent)
                        => Failed(result'[t])
      ]_vars

\* The case of C8: a reader asked for a location that holds no file has
\* failed, and the location still holds none.
C8_Witness ==
    \E t \in MainThreads :
        /\ op[t].name = "get_reader_for_manifest"
        /\ pc[t] = "done"
        /\ resp[t].ok
        /\ Failed(result[t])
        /\ fs[resp[t].path] = Absent
        /\ \E p \in DOMAIN fs : fs[p] # Absent

\* C9: every invocation of an operation issues exactly one RPC call (the
\* stream-opening call for get_catalog and list_tags), and when that call or
\* a later stream pull fails, the operation returns a failure without another.
C9_NoRetries ==
    \A t \in Threads :
        /\ rpcs[t] = calls[t]
        /\ InCall(t) => req[t] # NoMsg
        /\ (pc[t] = "done" /\ (~resp[t].ok \/ StreamError \in Range(pulled[t])))
              => Failed(result[t])

\* The case of C9: the second operation of the caller has failed on its RPC,
\* two RPC calls after the caller's first invocation.
C9_Witness ==
    \E t \in Threads :
        /\ calls[t] = 2
        /\ rpcs[t] = 2
        /\ pc[t] = "done"
        /\ ~resp[t].ok
        /\ op[t].name \in StreamOps

\* C10: complete_upload forwards the caller's request to the backend whether
\* or not the identifier was ever returned by request_upload, and its outcome
\* is the backend's: a failure when the backend rejects it (as it does an
\* identifier it never issued), and on success an AcceptedUpload carrying the
\* digest of the backend's answer, not the caller's, and the caller's
\* repository.
C10_CompleteUploadIsBackends ==
    \A t \in Threads :
        op[t].name = "complete_upload"
        => /\ req[t] = [rpc |-> "CompleteUpload", repo_name |-> op[t].repo_name,
                        uuid |-> op[t].uuid, user_digest |-> op[t].digest]
           /\ pc[t] = "done"
                => /\ result[t].ok = resp[t].ok
                   /\ resp[t].ok
                        => result[t].val = [digest |-> resp[t].digest,
                                            repo_name |-> op[t].repo_name]
                   /\ ~resp[t].ok => Failed(result[t])
                   /\ (\A i \in issued : i.uuid # op[t].uuid)
                        => Failed(result[t])

\* The case of C10: an upload was completed for an identifier the backend
\* never issued.
C10_Witness ==
    \E t \in Threads :
        /\ op[t].name = "complete_upload"
        /\ pc[t] = "done"
        /\ issued = {}
        /\ rpcs[t] = 1
        /\ Failed(result[t])

\* A second case of C10: the backend confirmed another digest than the caller's.
C10_WitnessConfirmed ==
    \E t \in Threads :
        /\ op[t].name = "complete_upload"
        /\ pc[t] = "done"
        /\ result[t].ok
        /\ result[t].val.digest # op[t].digest

====
